---- MODULE Spec2Model ----
(***************************************************************************)
(* Model of scripts/retdec-utils.py: CmdRunner (run_cmd, run_measured_cmd, *)
(* _run_cmd, start and the output post-processing helpers) together with   *)
(* _LinuxProcess / _WindowsProcess and the part of the operating system    *)
(* and of subprocess.Popen that those methods drive.                       *)
(*                                                                         *)
(* Text is a sequence of one-character strings.  The character \x1b is     *)
(* written Esc.                                                            *)
(***************************************************************************)
EXTENDS Integers, Sequences, FiniteSets, TLC

(***************************************************************************)
(* Bounds of the model.                                                    *)
(***************************************************************************)
\* number of pieces a text of SpecText is made of
MaxParts == 3
\* number of _run_cmd calls one behaviour of Spec makes
MaxCalls == 2
\* SpecTime: the longest run, in ticks
MaxTicks == 25
\* SpecTime: the farthest the wall clock is set back during a run, in ticks
MaxSetBack == 30

(***************************************************************************)
(* Program constants.                                                      *)
(***************************************************************************)
TIMEOUT_RC == 137

\* signal.SIGTERM: Popen.returncode of a process ended by signal n is -n
SIGTERM_NO == 15

\* memory_kb / 1024
KB_PER_MB == 1024

Esc == "ESC"

\* str.rstrip() without arguments removes these
Whitespace == {" ", "\n", "\t", "\r"}

Digits == {"0", "1", "2", "3", "4", "5", "6", "7", "8", "9"}

\* 'Command being timed:'
TimedMarker ==
  <<"C","o","m","m","a","n","d"," ","b","e","i","n","g"," ","t","i","m","e","d",":">>

\* 'Command exited with non-zero status'
ExitedMarker ==
  <<"C","o","m","m","a","n","d"," ","e","x","i","t","e","d"," ","w","i","t","h"," ",
    "n","o","n","-","z","e","r","o"," ","s","t","a","t","u","s">>

\* 'Maximum resident set size (kbytes): '
MemoryMarker ==
  <<"M","a","x","i","m","u","m"," ","r","e","s","i","d","e","n","t"," ","s","e","t"," ",
    "s","i","z","e"," ","(","k","b","y","t","e","s",")",":"," ">>

(***************************************************************************)
(* Pure text helpers.                                                      *)
(***************************************************************************)
\* text[i..] starts with pat
StartsAt(text, pat, i) ==
  /\ i + Len(pat) - 1 <= Len(text)
  /\ \A k \in 1..Len(pat) : text[i + k - 1] = pat[k]

\* str.find, 1-based: the first index where pat occurs in text, 0 when none
Find(text, pat) ==
  IF \E i \in 1..Len(text) : StartsAt(text, pat, i)
  THEN CHOOSE i \in 1..Len(text) :
         /\ StartsAt(text, pat, i)
         /\ \A j \in 1..(i - 1) : ~StartsAt(text, pat, j)
  ELSE 0

\* text.split(pat)[0]
SplitFirst(text, pat) ==
  LET i == Find(text, pat)
  IN IF i = 0 THEN text ELSE SubSeq(text, 1, i - 1)

\* str.rstrip()
RECURSIVE rstrip(_)
rstrip(text) ==
  IF text # <<>> /\ text[Len(text)] \in Whitespace
  THEN rstrip(SubSeq(text, 1, Len(text) - 1))
  ELSE text

\* the least element of a non-empty set of indices
Least(S) == CHOOSE i \in S : \A j \in S : i <= j

\* re.sub(r'\x1b[^m]*m', '', text) from index i on.  The leftmost match
\* starts at the first Esc that has an "m" somewhere after it and ends at the
\* first such "m" ([^m]* takes any other character, Esc and newline
\* included); the text before the match is kept and the search goes on
\* behind it.
RECURSIVE StripFrom(_, _)
StripFrom(text, i) ==
  LET ms == {j \in i..Len(text) : text[j] = "m"}
      starts == {j \in i..Len(text) : text[j] = Esc /\ \E k \in ms : k > j}
  IN IF starts = {} THEN SubSeq(text, i, Len(text))
     ELSE LET b == Least(starts)
              e == Least({k \in ms : k > b})
          IN SubSeq(text, i, b - 1) \o StripFrom(text, e + 1)

\* mutant: r'\x1b[^m\x1b]*m', a sequence may not hold a second Esc
RECURSIVE StripInnerFrom(_, _)
StripInnerFrom(text, i) ==
  LET ms == {j \in i..Len(text) : text[j] = "m"}
      starts == {j \in i..Len(text) :
                   /\ text[j] = Esc
                   /\ \E k \in ms : k > j /\ \A l \in (j + 1)..(k - 1) : text[l] # Esc}
  IN IF starts = {} THEN SubSeq(text, i, Len(text))
     ELSE LET b == Least(starts)
              e == Least({k \in ms : k > b})
          IN SubSeq(text, i, b - 1) \o StripInnerFrom(text, e + 1)

StripColors_InnerEsc(text) == StripInnerFrom(text, 1)

_strip_shell_colors(text) == StripFrom(text, 1)

\* int(g) of a string of decimal digits
DigitVal(c) ==
  CASE c = "0" -> 0 [] c = "1" -> 1 [] c = "2" -> 2 [] c = "3" -> 3 [] c = "4" -> 4
    [] c = "5" -> 5 [] c = "6" -> 6 [] c = "7" -> 7 [] c = "8" -> 8 [] c = "9" -> 9

RECURSIVE ParseInt(_)
ParseInt(g) ==
  IF g = <<>> THEN 0
  ELSE 10 * ParseInt(SubSeq(g, 1, Len(g) - 1)) + DigitVal(g[Len(g)])

\* the (\d+) group that starts at index i: the longest run of digits
RECURSIVE DigitRun(_, _)
DigitRun(text, i) ==
  IF i <= Len(text) /\ text[i] \in Digits
  THEN <<text[i]>> \o DigitRun(text, i + 1)
  ELSE <<>>

\* re.search(r'Maximum resident set size \(kbytes\): (\d+)', output): the
\* index of the leftmost match, 0 when there is none
MemorySearch(output) ==
  LET Hit(i) == /\ StartsAt(output, MemoryMarker, i)
                /\ DigitRun(output, i + Len(MemoryMarker)) # <<>>
  IN IF \E i \in 1..Len(output) : Hit(i)
     THEN CHOOSE i \in 1..Len(output) : Hit(i) /\ \A j \in 1..(i - 1) : ~Hit(j)
     ELSE 0

\* mutant: without `if memory == 0: memory = 1`
MbFromKb_NoFloor(memory_kb) == memory_kb \div KB_PER_MB

\* int(memory_kb / 1024), then 1 in place of 0.  The float quotient is exact
\* for every memory_kb below 2^53, so int() of it is the integer quotient.
MbFromKb(memory_kb) ==
  LET memory == memory_kb \div KB_PER_MB
  IN IF memory = 0 THEN 1 ELSE memory

_get_memory_from_measured_output(output) ==
  LET s == MemorySearch(output)
  IN IF s # 0
     THEN MbFromKb(ParseInt(DigitRun(output, s + Len(MemoryMarker))))
     ELSE 0

\* mutant: the second marker is looked for only when the first is absent
CleanOutput_TimedFirst(output) ==
  rstrip(IF Find(output, TimedMarker) # 0
         THEN SplitFirst(output, TimedMarker)
         ELSE SplitFirst(output, ExitedMarker))

_get_clean_output_from_measured_output(output) ==
  rstrip(SplitFirst(SplitFirst(output, TimedMarker), ExitedMarker))


(***************************************************************************)
(* Values.                                                                 *)
(***************************************************************************)
\* Python's None for `output`, and a captured str
None == [present |-> FALSE, text |-> <<>>]
Str(t) == [present |-> TRUE, text |-> t]

\* `if output:` : neither None nor ''
Truthy(output) == output.present /\ output.text # <<>>

NoResult == [made |-> FALSE, memory |-> 0, output |-> None,
             return_code |-> 0, timed_out |-> FALSE]

NoProc == [leader |-> "none", status |-> 0, cause |-> "none",
           ignoresTerm |-> FALSE, desc |-> "none", descIgnoresTerm |-> FALSE]

NoReq == [entry |-> "none", cmd |-> <<>>, timeout |-> "None", buffer_output |-> FALSE,
          track_memory |-> FALSE, tool_found |-> FALSE]

\* config.LOG_TIME: the invocation of the measurement utility, its program first
LOG_TIME == <<"time", "-v">>

\* sys.executable
sys_executable == "python"

\* name.endswith('.py')
EndsWithPy(name) == name \in {"script.py"}

\* the command lists a caller passes
Commands == {<<"tool">>, <<"script.py">>}

Signals == {"SIGINT", "SIGTERM"}

\* exit codes a command ends with by itself
ExitCodes == {0, 3}

\* what a launched command does with SIGTERM, and whether it has spawned a
\* descendant (same process group, same inherited streams)
Behaviours ==
  { b \in [ignoresTerm : BOOLEAN, desc : {"none", "running"}, descIgnoresTerm : BOOLEAN] :
      b.desc = "none" => ~b.descIgnoresTerm }

\* 'hi \n'
TextPlain == <<"h", "i", " ", "\n">>
\* 'hello\n    Command being timed: "x"\n    Maximum resident set size (kbytes): 4096\n'
TextMeasured ==
  <<"h","e","l","l","o","\n"," "," "," "," ">> \o TimedMarker \o <<" ","\"","x","\"","\n"," "," "," "," ">>
    \o MemoryMarker \o <<"4","0","9","6","\n">>
\* 'hi\n' and the color reset sequence ESC [ 0 m
TextColored == <<"h", "i", "\n", Esc, "[", "0", "m">>
\* texts a command of Spec prints
SampleTexts == {TextPlain, TextMeasured, TextColored}

VARIABLES
  platform,   \* Utils.is_windows(): "linux" or "windows"
  ctl,        \* the controlling (Python) process: "alive" or "exited"
  ncalls,     \* _run_cmd calls begun; the current call's handle p is procs[ncalls]
  pc,         \* where the controller is in _run_cmd
  req,        \* the current call's arguments, track_memory as of line 75
  handlers,   \* signal dispositions: 0 is the default, k is signal_handler of call k
  procs,      \* per call: the launched process and its descendant
  printed,    \* what the current command has written so far
  expired,    \* the current call's bounded wait raised TimeoutExpired
  attempts,   \* Popen constructions of the current call
  result,     \* the quadruple _run_cmd returned
  exc,        \* the exception the current call ended with
  sigseen,    \* what became of the signals delivered while this call's child ran
  cmd,        \* the caller's command list, as the list object reads now
  args,       \* the argument list the current call handed to Popen
  now,        \* SpecTime: the reading of time.time(), in ticks
  start,      \* SpecTime: run_measured_cmd's `start`
  elapsed,    \* SpecTime: the elapsed_time run_measured_cmd returned
  text,       \* SpecText: the input text
  op,         \* SpecText: the operation applied to it
  outText,    \* SpecText: the text it gave
  outMem      \* SpecText: the memory it gave

procVars == <<platform, ctl, ncalls, pc, req, handlers, procs, printed, expired,
              attempts, result, exc, sigseen>>
cmdVars == <<cmd, args>>
timeVars == <<now, start, elapsed>>
textVars == <<text, op, outText, outMem>>
vars == <<platform, ctl, ncalls, pc, req, handlers, procs, printed, expired,
          attempts, result, exc, sigseen, cmd, args, now, start, elapsed,
          text, op, outText, outMem>>

InCall == pc \notin {"idle", "returned", "raised"}

(***************************************************************************)
(* subprocess.Popen and the operating system, as _run_cmd drives them.     *)
(***************************************************************************)
\* exit status of a process ended by taskkill /F
TASKKILL_STATUS == 1

\* a process that has exited has no signal disposition left
Settle(p) ==
  [p EXCEPT !.ignoresTerm = IF p.leader = "running" THEN @ ELSE FALSE,
            !.descIgnoresTerm = IF p.desc = "running" THEN @ ELSE FALSE]

\* _LinuxProcess.kill: os.killpg(self.pid, signal.SIGTERM).  The group is
\* the leader, until it is reaped, and its running descendant; killpg of a
\* group without a process raises ProcessLookupError.  SIGTERM ends every
\* process of the group that does not ignore it.
_LinuxProcess_kill(p) ==
  [ raises |-> p.leader \in {"none", "reaped"} /\ p.desc # "running",
    proc |-> Settle(
      [p EXCEPT
         !.leader = IF p.leader = "running" /\ ~p.ignoresTerm THEN "zombie" ELSE @,
         !.status = IF p.leader = "running" /\ ~p.ignoresTerm THEN 0 - SIGTERM_NO ELSE @,
         !.cause = IF p.leader = "running" /\ ~p.ignoresTerm THEN "killed" ELSE @,
         !.desc = IF p.desc = "running" /\ ~p.descIgnoresTerm THEN "exited" ELSE @]) ]

\* _WindowsProcess.kill: subprocess.call(['taskkill', '/F', '/T', '/PID', pid]).
\* It ends the process with that id and the tree below it, by force; with no
\* such process running it ends nothing, and its exit code is dropped.
_WindowsProcess_kill(p) ==
  [ raises |-> FALSE,
    proc |->
      IF p.leader = "running"
      THEN Settle([p EXCEPT !.leader = "zombie", !.status = TASKKILL_STATUS,
                            !.cause = "killed",
                            !.desc = IF @ = "running" THEN "exited" ELSE @])
      ELSE p ]

\* p.kill() of the handle start() returned
kill(p) ==
  IF platform = "windows" THEN _WindowsProcess_kill(p) ELSE _LinuxProcess_kill(p)

\* mutant: the measurement is prepared whether or not the utility exists
TrackMemory_Unchecked(track_memory, tool_exists) == track_memory

\* line 75: track_memory = track_memory and Utils.tool_exists(config.LOG_TIME[0])
TrackMemory(track_memory, tool_exists) == track_memory /\ tool_exists

\* lines 76-77 and 121: the list start() hands to Popen as args.
\* config.LOG_TIME + cmd is a new list; without it args is the caller's list.
StartArgs(track_memory, c) == IF track_memory THEN LOG_TIME \o c ELSE c

\* _WindowsProcess.__init__, lines 212-213: kwargs['args'].insert(0, sys.executable)
_WindowsProcess_args(a) ==
  IF a # <<>> /\ EndsWithPy(Head(a)) THEN <<sys_executable>> \o a ELSE a

\* the contents of the list Popen is constructed with
PopenArgs(a) == IF platform = "windows" THEN _WindowsProcess_args(a) ELSE a

\* The caller's list after start(): list.insert changes the list object it
\* is given, which is the caller's own unless line 77 made a new one.
CallerList(track_memory, c) == IF track_memory THEN c ELSE PopenArgs(c)

\* p.communicate(...) can return: the process has exited and, when stdout is
\* a pipe, every holder of its write end has closed it
WaitComplete(p, buffer_output) ==
  /\ p.leader = "zombie"
  /\ buffer_output => p.desc # "running"

\* mutant: stdout is a pipe whatever buffer_output says
CommunicateOutput_AlwaysPipe(buffer_output, written) == Str(written)

\* the `output` p.communicate() returns: the captured text when start() made
\* stdout a pipe, None when the streams are inherited
CommunicateOutput(buffer_output, written) ==
  IF buffer_output THEN Str(written) ELSE None

(***************************************************************************)
(* _run_cmd, lines 88-94 and 100-103.                                      *)
(***************************************************************************)
\* output.rstrip(), then _strip_shell_colors(output)
Cleanup(output) ==
  IF Truthy(output) THEN Str(_strip_shell_colors(rstrip(output.text))) ELSE output

\* mutant: the exit code reduced to success or failure
NormalReturn_Bool(output, returncode, track_memory) ==
  [made |-> TRUE, memory |-> 0, output |-> Cleanup(output),
   return_code |-> IF returncode = 0 THEN 0 ELSE 1, timed_out |-> FALSE]

\* return memory, output, p.returncode, False
NormalReturn(output, returncode, track_memory) ==
  [made |-> TRUE,
   memory |-> IF Truthy(output) /\ track_memory
              THEN _get_memory_from_measured_output(Cleanup(output).text) ELSE 0,
   output |-> IF Truthy(output) /\ track_memory
              THEN Str(_get_clean_output_from_measured_output(Cleanup(output).text))
              ELSE Cleanup(output),
   return_code |-> returncode,
   timed_out |-> FALSE]

\* return memory, output, TIMEOUT_RC, True
TimeoutReturn(output) ==
  [made |-> TRUE, memory |-> 0, output |-> Cleanup(output),
   return_code |-> TIMEOUT_RC, timed_out |-> TRUE]

\* The model follows a process for as long as a handle in use refers to it:
\* the current call's p and the handles the installed signal_handlers closed
\* over.  The returncode of an earlier call's handle is read by nothing.
Forget(ps, keep, cur) ==
  [k \in 1..MaxCalls |->
     IF k = cur THEN ps[k]
     ELSE IF k \in keep THEN [ps[k] EXCEPT !.status = 0, !.cause = "none"]
     ELSE NoProc]

\* mutant: the failure of start() is swallowed and _run_cmd goes on
LaunchFailurePc_GoOn == "install_int"

\* mutant: a failed start() is tried again
LaunchFailurePc_Retry == "start"

\* where a failed start() leaves _run_cmd: the exception leaves the try block
LaunchFailurePc == "raised"

(***************************************************************************)
(* Spec: the controller, its signals and the launched processes.           *)
(***************************************************************************)
Init ==
  /\ platform \in {"linux", "windows"}
  /\ ctl = "alive"
  /\ ncalls = 0
  /\ pc = "idle"
  /\ req = NoReq
  /\ handlers = [s \in Signals |-> 0]
  /\ procs = [k \in 1..MaxCalls |-> NoProc]
  /\ printed = <<>>
  /\ expired = FALSE
  /\ attempts = 0
  /\ result = NoResult
  /\ exc = "none"
  /\ sigseen = "none"
  /\ cmd = <<>>
  /\ args = <<>>
  /\ now = 0
  /\ start = 0
  /\ elapsed = 0
  /\ text = <<>>
  /\ op = "none"
  /\ outText = <<>>
  /\ outMem = 0

\* run_cmd / run_measured_cmd call _run_cmd; lines 73-77
Call(entry, c, timeout, buffer_output, tool_exists) ==
  /\ ctl = "alive"
  /\ ~InCall
  /\ ncalls < MaxCalls
  /\ ncalls' = ncalls + 1
  /\ pc' = "start"
  /\ req' = [entry |-> entry, cmd |-> c, timeout |-> timeout,
             buffer_output |-> IF entry = "run_measured_cmd" THEN TRUE ELSE buffer_output,
             track_memory |-> TrackMemory(entry = "run_measured_cmd",
                                          entry = "run_measured_cmd" /\ tool_exists),
             tool_found |-> entry = "run_measured_cmd" /\ tool_exists]
  /\ cmd' = c
  /\ args' = <<>>
  /\ printed' = <<>>
  /\ expired' = FALSE
  /\ attempts' = 0
  /\ result' = NoResult
  /\ exc' = "none"
  /\ sigseen' = "none"
  /\ procs' = Forget(procs, {handlers["SIGINT"], handlers["SIGTERM"]}, 0)
  /\ UNCHANGED <<platform, ctl, handlers>>
  /\ UNCHANGED <<timeVars, textVars>>

\* line 79: p = self.start(cmd, buffer_output)
Start(ok, b) ==
  /\ ctl = "alive"
  /\ pc = "start"
  /\ attempts' = attempts + 1
  /\ args' = PopenArgs(StartArgs(req.track_memory, cmd))
  /\ cmd' = CallerList(req.track_memory, cmd)
  /\ IF ok
     THEN /\ procs' = [procs EXCEPT ![ncalls] =
                         [leader |-> "running", status |-> 0, cause |-> "none",
                          ignoresTerm |-> b.ignoresTerm, desc |-> b.desc,
                          descIgnoresTerm |-> b.descIgnoresTerm]]
          /\ pc' = "install_int"
          /\ exc' = exc
     ELSE /\ procs' = procs
          /\ pc' = LaunchFailurePc
          /\ exc' = "LaunchFailure"
  /\ UNCHANGED <<platform, ctl, ncalls, req, handlers, printed, expired, result, sigseen>>
  /\ UNCHANGED <<timeVars, textVars>>

\* line 83: signal.signal(signal.SIGINT, signal_handler)
InstallSigint ==
  /\ ctl = "alive"
  /\ pc = "install_int"
  /\ handlers' = [handlers EXCEPT !["SIGINT"] = ncalls]
  /\ procs' = Forget(procs, {handlers["SIGTERM"]}, ncalls)
  /\ pc' = "install_term"
  /\ UNCHANGED <<platform, ctl, ncalls, req, printed, expired, attempts,
                 result, exc, sigseen>>
  /\ UNCHANGED <<cmdVars, timeVars, textVars>>

\* line 84: signal.signal(signal.SIGTERM, signal_handler)
InstallSigterm ==
  /\ ctl = "alive"
  /\ pc = "install_term"
  /\ handlers' = [handlers EXCEPT !["SIGTERM"] = ncalls]
  /\ procs' = Forget(procs, {handlers["SIGINT"]}, ncalls)
  /\ pc' = "communicate"
  /\ UNCHANGED <<platform, ctl, ncalls, req, printed, expired, attempts,
                 result, exc, sigseen>>
  /\ UNCHANGED <<cmdVars, timeVars, textVars>>

\* line 86: p.communicate(input, timeout) returns; the process is reaped
CommunicateReturns ==
  /\ ctl = "alive"
  /\ pc = "communicate"
  /\ WaitComplete(procs[ncalls], req.buffer_output)
  /\ procs' = [procs EXCEPT ![ncalls].leader = "reaped"]
  /\ pc' = "post"
  /\ UNCHANGED <<platform, ctl, ncalls, req, handlers, printed, expired, attempts,
                 result, exc, sigseen>>
  /\ UNCHANGED <<cmdVars, timeVars, textVars>>

\* lines 88-94
ReturnNormal ==
  /\ ctl = "alive"
  /\ pc = "post"
  /\ result' = NormalReturn(CommunicateOutput(req.buffer_output, printed),
                            procs[ncalls].status, req.track_memory)
  /\ pc' = "returned"
  /\ UNCHANGED <<platform, ctl, ncalls, req, handlers, procs, printed, expired,
                 attempts, exc, sigseen>>
  /\ UNCHANGED <<cmdVars, timeVars, textVars>>

\* lines 86, 95: the bounded wait ends unfinished, subprocess.TimeoutExpired
TimeoutExpires ==
  /\ ctl = "alive"
  /\ pc = "communicate"
  /\ req.timeout = "finite"
  /\ ~WaitComplete(procs[ncalls], req.buffer_output)
  /\ expired' = TRUE
  /\ pc' = "timeout_kill"
  /\ UNCHANGED <<platform, ctl, ncalls, req, handlers, procs, printed, attempts,
                 result, exc, sigseen>>
  /\ UNCHANGED <<cmdVars, timeVars, textVars>>

\* line 97: p.kill()
KillOnTimeout ==
  /\ ctl = "alive"
  /\ pc = "timeout_kill"
  /\ procs' = [procs EXCEPT ![ncalls] = kill(procs[ncalls]).proc]
  /\ pc' = IF kill(procs[ncalls]).raises THEN "raised" ELSE "drain"
  /\ exc' = IF kill(procs[ncalls]).raises THEN "ProcessLookupError" ELSE exc
  /\ UNCHANGED <<platform, ctl, ncalls, req, handlers, printed, expired, attempts,
                 result, sigseen>>
  /\ UNCHANGED <<cmdVars, timeVars, textVars>>

\* line 99: p.communicate() returns; the process is reaped
DrainReturns ==
  /\ ctl = "alive"
  /\ pc = "drain"
  /\ WaitComplete(procs[ncalls], req.buffer_output)
  /\ procs' = [procs EXCEPT ![ncalls].leader = "reaped"]
  /\ pc' = "post_timeout"
  /\ UNCHANGED <<platform, ctl, ncalls, req, handlers, printed, expired, attempts,
                 result, exc, sigseen>>
  /\ UNCHANGED <<cmdVars, timeVars, textVars>>

\* lines 100-103
ReturnTimeout ==
  /\ ctl = "alive"
  /\ pc = "post_timeout"
  /\ result' = TimeoutReturn(CommunicateOutput(req.buffer_output, printed))
  /\ pc' = "returned"
  /\ UNCHANGED <<platform, ctl, ncalls, req, handlers, procs, printed, expired,
                 attempts, exc, sigseen>>
  /\ UNCHANGED <<cmdVars, timeVars, textVars>>

\* A SIGINT or SIGTERM is delivered to the controller.  Disposition 0 is
\* Python's default (KeyboardInterrupt for SIGINT, termination for SIGTERM);
\* disposition k is the signal_handler of call k, lines 81-82: p.kill() of
\* that call's handle, whose exception surfaces wherever the controller is
\* (outside _run_cmd it is the caller's to deal with).
Signal(sig) ==
  /\ ctl = "alive"
  /\ LET h == handlers[sig]
         live == InCall /\ procs[ncalls].leader \in {"running", "zombie"}
     IN IF h = 0
        THEN /\ procs' = procs
             /\ IF sig = "SIGINT" /\ InCall
                THEN /\ pc' = "raised"
                     /\ exc' = "KeyboardInterrupt"
                     /\ ctl' = ctl
                     /\ sigseen' = IF live THEN "missed" ELSE sigseen
                ELSE /\ pc' = pc
                     /\ exc' = exc
                     /\ ctl' = "exited"
                     /\ sigseen' = IF live THEN "missed" ELSE sigseen
        ELSE /\ procs' = [procs EXCEPT ![h] = kill(procs[h]).proc]
             /\ pc' = IF kill(procs[h]).raises /\ InCall THEN "raised" ELSE pc
             /\ exc' = IF kill(procs[h]).raises /\ InCall THEN "ProcessLookupError" ELSE exc
             /\ ctl' = ctl
             /\ sigseen' = IF ~live \/ sigseen = "missed" THEN sigseen
                            ELSE IF h = ncalls THEN "kill" ELSE "missed"
  /\ UNCHANGED <<platform, ncalls, req, handlers, printed, expired, attempts, result>>
  /\ UNCHANGED <<cmdVars, timeVars, textVars>>

\* the running command writes its output
ChildPrints(t) ==
  /\ ncalls >= 1
  /\ procs[ncalls].leader = "running"
  /\ printed = <<>>
  /\ printed' = t
  /\ UNCHANGED <<platform, ctl, ncalls, pc, req, handlers, procs, expired, attempts,
                 result, exc, sigseen>>
  /\ UNCHANGED <<cmdVars, timeVars, textVars>>

\* a launched process exits by itself with the given code
ChildExits(k, code) ==
  /\ procs[k].leader = "running"
  /\ procs' = [procs EXCEPT ![k] =
                  Settle([@ EXCEPT !.leader = "zombie", !.status = code,
                                   !.cause = IF k = ncalls /\ expired
                                             THEN "self_late" ELSE "self"])]
  /\ UNCHANGED <<platform, ctl, ncalls, pc, req, handlers, printed, expired, attempts,
                 result, exc, sigseen>>
  /\ UNCHANGED <<cmdVars, timeVars, textVars>>

\* a descendant exits by itself, closing the streams it inherited
DescendantExits(k) ==
  /\ procs[k].desc = "running"
  /\ procs' = [procs EXCEPT ![k] = Settle([@ EXCEPT !.desc = "exited"])]
  /\ UNCHANGED <<platform, ctl, ncalls, pc, req, handlers, printed, expired, attempts,
                 result, exc, sigseen>>
  /\ UNCHANGED <<cmdVars, timeVars, textVars>>

Next ==
  \/ \E entry \in {"run_cmd", "run_measured_cmd"}, c \in Commands,
        timeout \in {"None", "finite"}, buffer_output \in BOOLEAN,
        tool_exists \in BOOLEAN :
       Call(entry, c, timeout, buffer_output, tool_exists)
  \/ \E ok \in BOOLEAN, b \in Behaviours : Start(ok, b)
  \/ InstallSigint
  \/ InstallSigterm
  \/ CommunicateReturns
  \/ ReturnNormal
  \/ TimeoutExpires
  \/ KillOnTimeout
  \/ DrainReturns
  \/ ReturnTimeout
  \/ \E sig \in Signals : Signal(sig)
  \/ \E t \in SampleTexts : ChildPrints(t)
  \/ \E k \in 1..MaxCalls, code \in ExitCodes : ChildExits(k, code)
  \/ \E k \in 1..MaxCalls : DescendantExits(k)

Spec == Init /\ [][Next]_vars

\* the steps of _run_cmd itself.  The controller is a running thread: a step
\* of it that stays possible is taken.  communicate(timeout) returns or raises
\* TimeoutExpired; communicate() returns once the wait is complete.
ControllerStep ==
  \/ \E ok \in BOOLEAN, b \in Behaviours : Start(ok, b)
  \/ InstallSigint
  \/ InstallSigterm
  \/ CommunicateReturns
  \/ ReturnNormal
  \/ TimeoutExpires
  \/ KillOnTimeout
  \/ DrainReturns
  \/ ReturnTimeout

\* Next with commands that print the short text only
NextLive ==
  \/ \E entry \in {"run_cmd", "run_measured_cmd"}, c \in Commands,
        timeout \in {"None", "finite"}, buffer_output \in BOOLEAN,
        tool_exists \in BOOLEAN :
       Call(entry, c, timeout, buffer_output, tool_exists)
  \/ \E ok \in BOOLEAN, b \in Behaviours : Start(ok, b)
  \/ InstallSigint
  \/ InstallSigterm
  \/ CommunicateReturns
  \/ ReturnNormal
  \/ TimeoutExpires
  \/ KillOnTimeout
  \/ DrainReturns
  \/ ReturnTimeout
  \/ \E sig \in Signals : Signal(sig)
  \/ ChildPrints(TextPlain)
  \/ \E k \in 1..MaxCalls, code \in ExitCodes : ChildExits(k, code)
  \/ \E k \in 1..MaxCalls : DescendantExits(k)

\* Spec with the controller making progress; nothing obliges a launched
\* process to exit
SpecLive == Init /\ [][NextLive]_vars /\ WF_vars(ControllerStep)

(***************************************************************************)
(* SpecText: the text functions applied to every text of a bounded set.    *)
(***************************************************************************)
\* 'Maximum resident set size (kbytes): K'
MemoryLine(digits) == MemoryMarker \o digits

\* what the texts of SpecText are made of
Pieces ==
  { <<Esc>>, <<"m">>, <<"h", "i">>, <<" ">>, <<"7">>,
    TimedMarker, ExitedMarker, MemoryMarker,
    MemoryLine(<<"0">>), MemoryLine(<<"1">>), MemoryLine(<<"1","0","2","3">>),
    MemoryLine(<<"2","0","4","8">>) }

RECURSIVE Concat(_)
Concat(parts) ==
  IF parts = <<>> THEN <<>> ELSE Head(parts) \o Concat(Tail(parts))

\* ESC [ ESC [ 0 m m: a color sequence that begins inside another
TextNested == <<Esc, "[", Esc, "[", "0", "m", "m">>

Texts ==
  { Concat(parts) : parts \in UNION { [1..n -> Pieces] : n \in 0..MaxParts } }
    \cup SampleTexts \cup {TextNested}

InitText ==
  /\ platform = "linux"
  /\ ctl = "alive"
  /\ ncalls = 0
  /\ pc = "idle"
  /\ req = NoReq
  /\ handlers = [s \in Signals |-> 0]
  /\ procs = [k \in 1..MaxCalls |-> NoProc]
  /\ printed = <<>>
  /\ expired = FALSE
  /\ attempts = 0
  /\ result = NoResult
  /\ exc = "none"
  /\ sigseen = "none"
  /\ cmd = <<>>
  /\ args = <<>>
  /\ now = 0
  /\ start = 0
  /\ elapsed = 0
  /\ text \in Texts
  /\ op = "none"
  /\ outText = <<>>
  /\ outMem = 0

\* self._strip_shell_colors(text)
StripShellColors ==
  /\ op = "none"
  /\ op' = "_strip_shell_colors"
  /\ outText' = _strip_shell_colors(text)
  /\ UNCHANGED <<text, outMem>>
  /\ UNCHANGED <<procVars, cmdVars, timeVars>>

\* self._get_memory_from_measured_output(text)
GetMemory ==
  /\ op = "none"
  /\ op' = "_get_memory_from_measured_output"
  /\ outMem' = _get_memory_from_measured_output(text)
  /\ UNCHANGED <<text, outText>>
  /\ UNCHANGED <<procVars, cmdVars, timeVars>>

\* self._get_clean_output_from_measured_output(text)
GetCleanOutput ==
  /\ op = "none"
  /\ op' = "_get_clean_output_from_measured_output"
  /\ outText' = _get_clean_output_from_measured_output(text)
  /\ UNCHANGED <<text, outMem>>
  /\ UNCHANGED <<procVars, cmdVars, timeVars>>

\* lines 88-94 of a measured run whose communicate() returned text
PostProcessMeasured ==
  /\ op = "none"
  /\ op' = "measured"
  /\ outText' = NormalReturn(Str(text), 0, TRUE).output.text
  /\ outMem' = NormalReturn(Str(text), 0, TRUE).memory
  /\ UNCHANGED text
  /\ UNCHANGED <<procVars, cmdVars, timeVars>>

NextText ==
  \/ StripShellColors
  \/ GetMemory
  \/ GetCleanOutput
  \/ PostProcessMeasured

SpecText == InitText /\ [][NextText]_vars

(***************************************************************************)
(* SpecTime: run_measured_cmd, lines 64-69, against the wall clock.        *)
(* time.time() is read in ticks of a tenth of a second.  It is the wall    *)
(* clock: it advances while the command runs and it can be set back        *)
(* between two readings (a clock adjustment).                              *)
(***************************************************************************)
\* ticks in one second of time.time()
TicksPerSecond == 10

\* int(x) of a float x = a / b, b > 0: truncation toward zero
TruncDiv(a, b) == IF a >= 0 THEN a \div b ELSE 0 - ((0 - a) \div b)

\* mutant: whole seconds of the clock compared, int(end) - int(start)
Elapsed_WholeSeconds(t0, t1) ==
  LET e == TruncDiv(t1, TicksPerSecond) - TruncDiv(t0, TicksPerSecond)
  IN IF e = 0 THEN 1 ELSE e

\* lines 66-68: elapsed = int(time.time() - start); if elapsed == 0: elapsed = 1
Elapsed(t0, t1) ==
  LET e == TruncDiv(t1 - t0, TicksPerSecond)
  IN IF e = 0 THEN 1 ELSE e

\* the sub-second phases of the clock a run starts at
StartPhases == {0, 5}

InitTime ==
  /\ platform = "linux"
  /\ ctl = "alive"
  /\ ncalls = 0
  /\ pc = "idle"
  /\ req = NoReq
  /\ handlers = [s \in Signals |-> 0]
  /\ procs = [k \in 1..MaxCalls |-> NoProc]
  /\ printed = <<>>
  /\ expired = FALSE
  /\ attempts = 0
  /\ result = NoResult
  /\ exc = "none"
  /\ sigseen = "none"
  /\ cmd = <<>>
  /\ args = <<>>
  /\ now \in StartPhases
  /\ start = 0
  /\ elapsed = 0
  /\ text = <<>>
  /\ op = "none"
  /\ outText = <<>>
  /\ outMem = 0

\* line 64: start = time.time(); line 65 begins
MeasuredCall(timeout, tool_exists) ==
  /\ pc = "idle"
  /\ start' = now
  /\ req' = [NoReq EXCEPT !.entry = "run_measured_cmd", !.timeout = timeout,
                          !.buffer_output = TRUE,
                          !.track_memory = TrackMemory(TRUE, tool_exists),
                          !.tool_found = tool_exists]
  /\ pc' = "measuring"
  /\ UNCHANGED <<platform, ctl, ncalls, handlers, procs, printed, expired, attempts,
                 result, exc, sigseen, now, elapsed>>
  /\ UNCHANGED <<cmdVars, textVars>>

\* the wall clock advances while _run_cmd runs
Tick ==
  /\ pc = "measuring"
  /\ now < start + MaxTicks
  /\ now' = now + 1
  /\ UNCHANGED <<procVars, cmdVars, textVars, start, elapsed>>

\* the wall clock is set back while _run_cmd runs
ClockSetBack(d) ==
  /\ pc = "measuring"
  /\ now >= start
  /\ now' = now - d
  /\ UNCHANGED <<procVars, cmdVars, textVars, start, elapsed>>

\* line 65: _run_cmd returns, by line 94 or by line 103; lines 66-69
MeasuredReturns(t, code, timed_out) ==
  /\ pc = "measuring"
  /\ timed_out => req.timeout = "finite"
  /\ printed' = t
  /\ expired' = timed_out
  /\ result' = IF timed_out
               THEN TimeoutReturn(CommunicateOutput(TRUE, t))
               ELSE NormalReturn(CommunicateOutput(TRUE, t), code, req.track_memory)
  /\ elapsed' = Elapsed(start, now)
  /\ pc' = "returned"
  /\ UNCHANGED <<platform, ctl, ncalls, req, handlers, procs, attempts, exc, sigseen,
                 now, start>>
  /\ UNCHANGED <<cmdVars, textVars>>

\* line 65: _run_cmd raises, and so does run_measured_cmd
MeasuredRaises ==
  /\ pc = "measuring"
  /\ pc' = "raised"
  /\ exc' = "LaunchFailure"
  /\ UNCHANGED <<platform, ctl, ncalls, req, handlers, procs, printed, expired,
                 attempts, result, sigseen>>
  /\ UNCHANGED <<cmdVars, timeVars, textVars>>

NextTime ==
  \/ \E timeout \in {"None", "finite"}, tool_exists \in BOOLEAN :
       MeasuredCall(timeout, tool_exists)
  \/ Tick
  \/ \E d \in 1..MaxSetBack : ClockSetBack(d)
  \/ \E t \in SampleTexts, code \in ExitCodes, timed_out \in BOOLEAN :
       MeasuredReturns(t, code, timed_out)
  \/ MeasuredRaises

SpecTime == InitTime /\ [][NextTime]_vars

(***************************************************************************)
(* The claims.                                                             *)
(***************************************************************************)
\* the current call ended and its bounded wait had expired
ExpiredCallEnded == expired /\ ~InCall

\* C1: whenever the returned timed_out is true the returned return_code is
\* 137, and every call whose bounded wait expired ends by returning
\* timed_out = true, never by raising to the caller.
C1_TimeoutIsReturnedAs137 ==
  /\ (result.made /\ result.timed_out) => result.return_code = TIMEOUT_RC
  /\ ExpiredCallEnded => (pc = "returned" /\ result.made /\ result.timed_out)

\* C2: once run_cmd has returned timed_out = true, neither the launched
\* process nor a descendant of it is still running.
C2_NothingRunsAfterTimeout ==
  (pc = "returned" /\ result.timed_out)
    => (procs[ncalls].leader # "running" /\ procs[ncalls].desc # "running")

\* C3: every SIGINT or SIGTERM delivered to the controller while the child
\* of the current call is launched and not yet waited for is translated into
\* kill() of that child.
C3_SignalBecomesKill == sigseen # "missed"

\* C4 (as claimed): a command that exited on its own before the timeout
\* expired is returned with timed_out = false and its own exit code.
C4_OwnExitReported ==
  (pc = "returned" /\ procs[ncalls].cause = "self")
    => (~result.timed_out /\ result.return_code = procs[ncalls].status)

\* C4 (amended): a command whose wait ended without the timeout expiring,
\* the process having exited on its own, is returned with timed_out = false
\* and its own exit code, zero or not.
C4_OwnExitReportedUnlessExpired ==
  (pc = "returned" /\ procs[ncalls].cause = "self" /\ ~expired)
    => (~result.timed_out /\ result.return_code = procs[ncalls].status)

C4_Witness ==
  /\ pc = "returned"
  /\ procs[ncalls].cause = "self"
  /\ ~expired
  /\ req.timeout = "finite"
  /\ result.return_code = 3

\* C5: kill() never raises out of _run_cmd when the process has already
\* exited and been reaped.
C5_KillToleratesExitedProcess == ~(pc = "raised" /\ exc = "ProcessLookupError")

\* C6: with buffer_output false the returned output is None, whatever the
\* child printed, on the normal and on the timeout path; output is present
\* only when buffering was requested.
C6_OutputOnlyWhenBuffered ==
  result.made => (result.output.present => req.buffer_output)

C6_Witness ==
  /\ result.made
  /\ result.timed_out
  /\ ~req.buffer_output
  /\ printed # <<>>
  /\ result.output = None

\* C7: when start() fails, the failure reaches the caller and nothing partial
\* is left: no handle, no result, no signal handler of this call.
C7_LaunchFailureLeavesNothing ==
  (ncalls >= 1 /\ attempts >= 1 /\ procs[ncalls].leader = "none")
    => /\ pc = "raised"
       /\ exc = "LaunchFailure"
       /\ ~result.made
       /\ \A s \in Signals : handlers[s] # ncalls

C7_Witness ==
  /\ ncalls = 2
  /\ attempts = 1
  /\ procs[ncalls].leader = "none"
  /\ exc = "LaunchFailure"
  /\ handlers["SIGINT"] = 1

\* C8: one call launches its command at most once, whether the launch
\* failed, the command exited non-zero or the wait timed out.
C8_LaunchedAtMostOnce == attempts <= 1

C8_Witness ==
  /\ pc = "returned"
  /\ attempts = 1
  /\ result.timed_out

\* the trailer of t reports K at index i in n digits: the first place where
\* the marker stands before a digit, the digits running as far as they go
C9_Reports(t, i, n) ==
  /\ StartsAt(t, MemoryMarker, i)
  /\ n >= 1
  /\ i + Len(MemoryMarker) + n - 1 <= Len(t)
  /\ \A k \in 0..(n - 1) : t[i + Len(MemoryMarker) + k] \in Digits
  /\ i + Len(MemoryMarker) + n <= Len(t) => t[i + Len(MemoryMarker) + n] \notin Digits
  /\ \A j \in 1..(i - 1) :
       ~(StartsAt(t, MemoryMarker, j) /\ j + Len(MemoryMarker) <= Len(t)
           /\ t[j + Len(MemoryMarker)] \in Digits)

C9_Kb(t, i, n) ==
  ParseInt(SubSeq(t, i + Len(MemoryMarker), i + Len(MemoryMarker) + n - 1))

\* C9 (as claimed): a trailer reporting K kbytes gives floor(K / 1024) when
\* K >= 1024, 1 when 0 < K < 1024 and 0 when K = 0.
C9_MemoryIsFloorWithOneForNonzero ==
  op = "_get_memory_from_measured_output" =>
    \A i \in {j \in 1..Len(text) : StartsAt(text, MemoryMarker, j)}, n \in 1..Len(text) :
      C9_Reports(text, i, n) =>
        outMem = IF C9_Kb(text, i, n) >= 1024 THEN C9_Kb(text, i, n) \div 1024
                 ELSE IF C9_Kb(text, i, n) > 0 THEN 1
                 ELSE 0

\* C9 (amended): a trailer reporting K kbytes gives floor(K / 1024) when
\* K >= 1024 and 1 for every smaller K, K = 0 included.
C9_MemoryIsFloorWithOneBelow1024 ==
  op = "_get_memory_from_measured_output" =>
    \A i \in {j \in 1..Len(text) : StartsAt(text, MemoryMarker, j)}, n \in 1..Len(text) :
      C9_Reports(text, i, n) =>
        outMem = IF C9_Kb(text, i, n) >= 1024 THEN C9_Kb(text, i, n) \div 1024
                 ELSE 1

C9_Witness ==
  /\ op = "_get_memory_from_measured_output"
  /\ text = <<"h", "i">> \o MemoryLine(<<"2","0","4","8">>) \o MemoryLine(<<"1">>)
  /\ outMem = 2

\* the part of t before the earliest occurrence of either marker, t itself
\* when it holds neither
C10_BeforeMarkers(t) ==
  LET hits == {i \in 1..Len(t) :
                 StartsAt(t, TimedMarker, i) \/ StartsAt(t, ExitedMarker, i)}
  IN IF hits = {} THEN t ELSE SubSeq(t, 1, Least(hits) - 1)

C10_NoEsc(t) == \A i \in 1..Len(t) : t[i] # Esc

C11_ElapsedAtLeastOne ==
  (pc = "returned" /\ req.entry = "run_measured_cmd") => elapsed >= 1

\* t holds a color sequence: an Esc with an "m" somewhere after it
C12_HasColor(t) == \E i \in 1..Len(t) : t[i] = Esc /\ \E j \in (i + 1)..Len(t) : t[j] = "m"

\* C12: stripping color sequences is idempotent: what _strip_shell_colors
\* returns holds no color sequence, and stripping it again gives it back.
C12_StripIsIdempotent ==
  op = "_strip_shell_colors" =>
    /\ ~C12_HasColor(outText)
    /\ _strip_shell_colors(outText) = outText

C12_Witness ==
  /\ op = "_strip_shell_colors"
  /\ text = TextNested
  /\ outText = <<"m">>

\* C13: with the measurement utility unavailable run_measured_cmd launches
\* the command without the measurement prefix (so the absent utility is never
\* run and cannot fail), reports memory 0 and returns the output a buffered
\* run_cmd returns: the captured text trimmed and stripped of colors, with no
\* trailer parsed or cut off.
C13_UnavailableToolDegrades ==
  (req.entry = "run_measured_cmd" /\ ~req.tool_found) =>
    /\ attempts >= 1 =>
         /\ Head(args) # Head(LOG_TIME)
         /\ SubSeq(args, Len(args) - Len(req.cmd) + 1, Len(args)) = req.cmd
    /\ result.made =>
         /\ result.memory = 0
         /\ result.output.present
         /\ result.output.text = _strip_shell_colors(rstrip(printed))

C13_Witness ==
  /\ req.entry = "run_measured_cmd"
  /\ ~req.tool_found
  /\ pc = "returned"
  /\ ~result.timed_out
  /\ printed = TextMeasured
  /\ result.memory = 0
  /\ Find(result.output.text, MemoryMarker) # 0

\* C14: the output a buffered run_cmd returns, on normal completion and
\* after a timeout, holds no color sequence and does not end in a whitespace
\* character.
C14_OutputStrippedThenTrimmed ==
  (pc = "returned" /\ req.entry = "run_cmd" /\ result.output.present) =>
    /\ ~C12_HasColor(result.output.text)
    /\ result.output.text # <<>> =>
         result.output.text[Len(result.output.text)] \notin Whitespace

\* C15: on every exit path of a call the handlers it installed are removed:
\* once the call has ended, no signal is still handled by its signal_handler.
C15_HandlersRemovedOnExit ==
  pc \in {"returned", "raised"} => \A s \in Signals : handlers[s] # ncalls

\* C16: no kill is issued, by a signal handler, against a process that has
\* exited and been reaped (or was never launched).
C16_KillOnlyOwnedProcess ==
  [][\A sig \in Signals :
       (Signal(sig) /\ handlers[sig] # 0)
         => procs[handlers[sig]].leader \in {"running", "zombie"}]_vars

\* C17: run_cmd, run_measured_cmd and start leave the caller's command list
\* as it was passed, on every platform.
C17_CommandUnchanged == cmd = req.cmd

\* round(d / TicksPerSecond) of a duration of d >= 0 ticks, ties to even
C18_Round(d) ==
  LET q == d \div TicksPerSecond
      r == d % TicksPerSecond
  IN IF 2 * r > TicksPerSecond \/ (2 * r = TicksPerSecond /\ q % 2 = 1)
     THEN q + 1 ELSE q

\* C18 (as claimed): the reported elapsed_seconds is the duration rounded to
\* the nearest second, with 1 in place of 0 (stated for the runs during which
\* the clock was not set back).
C18_ElapsedIsRounded ==
  (pc = "returned" /\ req.entry = "run_measured_cmd" /\ now >= start) =>
    elapsed = IF C18_Round(now - start) = 0 THEN 1 ELSE C18_Round(now - start)

\* C18 (amended): the reported elapsed_seconds is the difference of the two
\* clock readings with its fraction cut off (truncated toward zero), with 1
\* in place of 0.
C18_ElapsedIsTruncated ==
  (pc = "returned" /\ req.entry = "run_measured_cmd") =>
    LET d == now - start
    IN /\ (0 - TicksPerSecond < d /\ d < TicksPerSecond) => elapsed = 1
       /\ d >= TicksPerSecond =>
            (elapsed * TicksPerSecond <= d /\ d < (elapsed + 1) * TicksPerSecond)
       /\ d <= 0 - TicksPerSecond =>
            ((elapsed - 1) * TicksPerSecond < d /\ d <= elapsed * TicksPerSecond)

C18_Witness ==
  /\ pc = "returned"
  /\ req.entry = "run_measured_cmd"
  /\ start = 5
  /\ now - start = 16
  /\ elapsed = 1

\* C19: every call given a finite timeout ends: it returns (or raises), unless
\* the controller itself is terminated first (stated for the platform with
\* process groups and a termination signal).
C19_FiniteTimeoutCallEnds ==
  []((platform = "linux" /\ InCall /\ req.timeout = "finite")
       => <>(~InCall \/ ctl = "exited"))

====
